---- MODULE Spec2Model ----
(***************************************************************************)
(* Cache layer of the spotify-clone backend: CacheManager                  *)
(* (backend/1-mongodb-app/cache_manager.py) and the request handlers of    *)
(* routes/songs.py, albums.py, playlists.py and users.py that use it in    *)
(* front of the primary store.                                             *)
(*                                                                         *)
(* A cache key is the sequence of its ':'-separated segments, so           *)
(* "album:song_count:<id>" is <<"album", "song_count", id>>.  A value is a *)
(* set of tuples of strings with a form: "bson" for a raw document of the  *)
(* primary store (it holds ObjectId fields), "plain" for data made of      *)
(* strings and numbers only.                                               *)
(***************************************************************************)
EXTENDS Integers, Sequences, FiniteSets, TLC

VARIABLES db, nextId, cache, client, backend, req, resp, ops,
          startup, now, calls, scan, req2, resp2, gcm

vars == <<db, nextId, cache, client, backend, req, resp, ops,
          startup, now, calls, scan, req2, resp2, gcm>>

(***************************************************************************)
(* Bounds of the exploration.                                              *)
(***************************************************************************)
MaxIds == 2

MaxOps == 3

MaxTicks == 3

\* The scans of one delete_pattern call are counted up to MaxScans.
MaxScans == 3

\* The callers of get_cache_manager.
MaxCallers == 3

(***************************************************************************)
(* Settings (config.py).                                                   *)
(***************************************************************************)
cache_ttl_aggregation == 600

cache_ttl_list == 300

cache_ttl_single == 1800

(***************************************************************************)
(* The primary store: four collections of documents.  A document is        *)
(* reduced to its id and one field (artist of a song, song_names of an     *)
(* album, ...).                                                            *)
(***************************************************************************)
Kinds == {"song", "album", "playlist", "user"}

IdSeq == <<"id1", "id2", "id3", "id4">>

Ids == {IdSeq[i] : i \in 1..MaxIds}

Vals == {"A", "B"}

Absent == "absent"

Plural(kind) == CASE kind = "song" -> "songs"
                  [] kind = "album" -> "albums"
                  [] kind = "playlist" -> "playlists"
                  [] kind = "user" -> "users"

Existing(d, kind) == {i \in Ids : d[kind][i] # Absent}

\* collection.find().to_list(1000) turned into <Kind>Collection(...).model_dump():
\* every ObjectId has become a string.
ListValue(d, kind) ==
    [form |-> "plain", data |-> {<<i, d[kind][i]>> : i \in Existing(d, kind)}]

\* collection.find_one({"_id": ObjectId(id)}): the raw document, _id an ObjectId.
FindOne(d, kind, id) ==
    [form |-> "bson", data |-> IF d[kind][id] = Absent THEN {} ELSE {<<id, d[kind][id]>>}]

\* The $group-by-artist pipeline of get_all_artists, song_id turned into a string.
ArtistsValue(d) ==
    [form |-> "plain", data |-> {<<d["song"][i], i>> : i \in Existing(d, "song")}]

\* The $match/$project pipeline of get_album_song_count: one document
\* {album_id, song_count}, or none.
SongCountValue(d, id) ==
    [form |-> "plain",
     data |-> IF d["album"][id] = Absent THEN {} ELSE {<<id, d["album"][id]>>}]

(***************************************************************************)
(* Cache keys and purge patterns.                                          *)
(***************************************************************************)
ListKey(kind) == <<"list", Plural(kind)>>

\* Path parameters that are no ObjectId: the handlers declare id: str, so the
\* router hands them any text without a '/'.
RawIds == {"song_count:id1", "songs:id1", "aggregation:id1"}

\* The ':'-separated segments of an id.
Segments(id) ==
    CASE id = "song_count:id1" -> <<"song_count", IdSeq[1]>>
      [] id = "songs:id1" -> <<"songs", IdSeq[1]>>
      [] id = "aggregation:id1" -> <<"aggregation", IdSeq[1]>>
      [] OTHER -> <<id>>

\* f"{kind}:{id}"
ItemKey(kind, id) == <<kind>> \o Segments(id)

ArtistsKey == <<"aggregation", "artists">>

SongCountKey(id) == <<"album", "song_count", id>>

\* The glob match of SCAN ... MATCH pattern: a pattern ending in '*' matches the
\* keys that begin with the text before it, any other pattern matches itself.
Matches(pattern, key) ==
    IF pattern[Len(pattern)] = "*"
    THEN /\ Len(key) >= Len(pattern)
         /\ \A i \in 1..(Len(pattern) - 1) : key[i] = pattern[i]
    ELSE key = pattern

Matching(c, pattern) == {k \in DOMAIN c : Matches(pattern, k)}

(***************************************************************************)
(* json.dumps / json.loads.                                                *)
(***************************************************************************)
JsonError == [ok |-> FALSE, text |-> <<>>]

\* A serializer that turns an ObjectId into its string.
JsonDumpsAny(value) == [ok |-> TRUE, text |-> <<"json", value.data>>]

\* json.dumps raises TypeError on an ObjectId.
JsonDumps(value) ==
    IF value.form = "bson" THEN JsonError
    ELSE [ok |-> TRUE, text |-> <<"json", value.data>>]

JsonLoads(text) ==
    IF Len(text) = 2 /\ text[1] = "json"
    THEN [ok |-> TRUE, value |-> [form |-> "plain", data |-> text[2]]]
    ELSE [ok |-> FALSE, value |-> [form |-> "plain", data |-> {}]]

(***************************************************************************)
(* CacheManager.  client is the state of self.client: "none" (None),       *)
(* "open" (assigned by connect), "closed" (closed by disconnect, still     *)
(* assigned).  c is the content of the backend, f tells whether the        *)
(* backend command of the call fails.  Every operation yields the new      *)
(* content, what it returns, whether it raised to its caller and whether   *)
(* it issued a backend command.                                            *)
(***************************************************************************)
NoValue == [form |-> "plain", data |-> {}]

Miss == [hit |-> FALSE, value |-> NoValue]

Hit(value) == [hit |-> TRUE, value |-> value]

NoClient(cl) == cl = "none"

\* get_cache without its try/except: the backend error reaches the caller.
GetCacheNoCatch(c, cl, key, f) ==
    IF NoClient(cl)
    THEN [cache |-> c, ret |-> Miss, raised |-> FALSE, issued |-> FALSE]
    ELSE IF f
    THEN [cache |-> c, ret |-> Miss, raised |-> TRUE, issued |-> TRUE]
    ELSE IF key \in DOMAIN c /\ JsonLoads(c[key].text).ok
    THEN [cache |-> c, ret |-> Hit(JsonLoads(c[key].text).value),
          raised |-> FALSE, issued |-> TRUE]
    ELSE [cache |-> c, ret |-> Miss, raised |-> FALSE, issued |-> TRUE]

\* get_cache that renews the time to live of the entry it returns.
GetCacheTouch(c, cl, key, f) ==
    IF NoClient(cl)
    THEN [cache |-> c, ret |-> Miss, raised |-> FALSE, issued |-> FALSE]
    ELSE IF f
    THEN [cache |-> c, ret |-> Miss, raised |-> FALSE, issued |-> TRUE]
    ELSE IF key \in DOMAIN c /\ JsonLoads(c[key].text).ok
    THEN [cache |-> [c EXCEPT ![key].ttl = cache_ttl_single],
          ret |-> Hit(JsonLoads(c[key].text).value),
          raised |-> FALSE, issued |-> TRUE]
    ELSE [cache |-> c, ret |-> Miss, raised |-> FALSE, issued |-> TRUE]

GetCache(c, cl, key, f) ==
    IF NoClient(cl)
    THEN [cache |-> c, ret |-> Miss, raised |-> FALSE, issued |-> FALSE]
    ELSE IF f
    THEN [cache |-> c, ret |-> Miss, raised |-> FALSE, issued |-> TRUE]
    ELSE IF key \in DOMAIN c /\ JsonLoads(c[key].text).ok
    THEN [cache |-> c, ret |-> Hit(JsonLoads(c[key].text).value),
          raised |-> FALSE, issued |-> TRUE]
    ELSE [cache |-> c, ret |-> Miss, raised |-> FALSE, issued |-> TRUE]

\* set_cache without its try/except: the serialization or backend error reaches
\* the caller.
SetCacheNoCatch(c, cl, key, value, ttl, f) ==
    IF NoClient(cl)
    THEN [cache |-> c, ret |-> Miss, raised |-> FALSE, issued |-> FALSE]
    ELSE IF ~JsonDumps(value).ok
    THEN [cache |-> c, ret |-> Miss, raised |-> TRUE, issued |-> FALSE]
    ELSE IF f
    THEN [cache |-> c, ret |-> Miss, raised |-> TRUE, issued |-> TRUE]
    ELSE [cache |-> (key :> [text |-> JsonDumps(value).text, ttl |-> ttl]) @@ c,
          ret |-> Miss, raised |-> FALSE, issued |-> TRUE]

\* set_cache that drops every other entry when it stores one.
SetCacheFlush(c, cl, key, value, ttl, f) ==
    IF NoClient(cl)
    THEN [cache |-> c, ret |-> Miss, raised |-> FALSE, issued |-> FALSE]
    ELSE IF ~JsonDumps(value).ok
    THEN [cache |-> c, ret |-> Miss, raised |-> FALSE, issued |-> FALSE]
    ELSE IF f
    THEN [cache |-> c, ret |-> Miss, raised |-> FALSE, issued |-> TRUE]
    ELSE [cache |-> (key :> [text |-> JsonDumps(value).text, ttl |-> ttl]),
          ret |-> Miss, raised |-> FALSE, issued |-> TRUE]

SetCache(c, cl, key, value, ttl, f) ==
    IF NoClient(cl)
    THEN [cache |-> c, ret |-> Miss, raised |-> FALSE, issued |-> FALSE]
    ELSE IF ~JsonDumps(value).ok
    THEN [cache |-> c, ret |-> Miss, raised |-> FALSE, issued |-> FALSE]
    ELSE IF f
    THEN [cache |-> c, ret |-> Miss, raised |-> FALSE, issued |-> TRUE]
    ELSE [cache |-> (key :> [text |-> JsonDumps(value).text, ttl |-> ttl]) @@ c,
          ret |-> Miss, raised |-> FALSE, issued |-> TRUE]

\* A delete that leaves the entries it does not remove cut short.
WithoutTearing(c, keys) ==
    [k \in (DOMAIN c) \ keys |-> [c[k] EXCEPT !.text = <<"json">>]]

\* A delete that also removes the keys sharing the first segment of a key given.
WithoutFamily(c, keys) ==
    [k \in {x \in DOMAIN c : \A y \in keys : y[1] # x[1]} |-> c[k]]

\* self.client.delete(*keys)
Without(c, keys) == [k \in (DOMAIN c) \ keys |-> c[k]]

\* delete_cache that sends no delete command.
DeleteCacheNoDelete(c, cl, key, f) ==
    [cache |-> c, ret |-> Miss, raised |-> FALSE, issued |-> FALSE]

\* delete_cache without its try/except: the backend error reaches the caller.
DeleteCacheNoCatch(c, cl, key, f) ==
    IF NoClient(cl)
    THEN [cache |-> c, ret |-> Miss, raised |-> FALSE, issued |-> FALSE]
    ELSE IF f
    THEN [cache |-> c, ret |-> Miss, raised |-> TRUE, issued |-> TRUE]
    ELSE [cache |-> Without(c, {key}), ret |-> Miss, raised |-> FALSE, issued |-> TRUE]

DeleteCache(c, cl, key, f) ==
    IF NoClient(cl)
    THEN [cache |-> c, ret |-> Miss, raised |-> FALSE, issued |-> FALSE]
    ELSE IF f
    THEN [cache |-> c, ret |-> Miss, raised |-> FALSE, issued |-> TRUE]
    ELSE [cache |-> Without(c, {key}), ret |-> Miss, raised |-> FALSE, issued |-> TRUE]

\* delete_pattern without its try/except: the backend error reaches the caller.
DeletePatternNoCatch(c, cl, pattern, f, partial) ==
    IF NoClient(cl)
    THEN [cache |-> c, ret |-> Miss, raised |-> FALSE, issued |-> FALSE]
    ELSE IF f
    THEN [cache |-> Without(c, partial \cap Matching(c, pattern)),
          ret |-> Miss, raised |-> TRUE, issued |-> TRUE]
    ELSE [cache |-> Without(c, Matching(c, pattern)),
          ret |-> Miss, raised |-> FALSE, issued |-> TRUE]

\* The scan/delete loop as one step.  When a backend command of the loop fails,
\* partial is the set of keys of the batches deleted before the failure.
DeletePattern(c, cl, pattern, f, partial) ==
    IF NoClient(cl)
    THEN [cache |-> c, ret |-> Miss, raised |-> FALSE, issued |-> FALSE]
    ELSE IF f
    THEN [cache |-> Without(c, partial \cap Matching(c, pattern)),
          ret |-> Miss, raised |-> FALSE, issued |-> TRUE]
    ELSE [cache |-> Without(c, Matching(c, pattern)),
          ret |-> Miss, raised |-> FALSE, issued |-> TRUE]

\* One step of an invalidation: a delete_cache or a delete_pattern call.
Purge(c, cl, step, f, partial) ==
    IF step.op = "delete_cache"
    THEN DeleteCache(c, cl, step.arg, f)
    ELSE DeletePattern(c, cl, step.arg, f, partial)

Del(key) == [op |-> "delete_cache", arg |-> key]

Pat(pattern) == [op |-> "delete_pattern", arg |-> pattern]

\* An invalidation that purges the whole cache.
invalidate_everything == << Pat(<<"*">>) >>

invalidate_aggregations ==
    << Pat(<<"aggregation", "*">>), Pat(<<"artists", "*">>), Pat(<<"list", "*">>) >>

invalidate_album_cache(album_id) ==
    << Del(<<"album", "song_count", album_id>>), Pat(<<"artists", "*">>) >>

invalidate_song_cache(song_id) ==
    << Pat(<<"artists", "*">>), Pat(<<"playlist", "*">>),
       Pat(<<"album", "song_count", "*">>) >>

invalidate_playlist_cache(playlist_id) ==
    << Del(<<"playlist", "songs", playlist_id>>),
       Del(<<"playlist", "aggregation", playlist_id>>) >>

\* What each mutation handler runs after its write to the primary store.
SongInvalidation(h, id) == invalidate_song_cache(id)

AlbumInvalidation(h, id) ==
    IF h = "create" THEN invalidate_aggregations ELSE invalidate_album_cache(id)

PlaylistInvalidation(h, id) ==
    IF h = "create" THEN invalidate_aggregations ELSE invalidate_playlist_cache(id)

\* The user handlers without their delete of list:users.
UserInvalidationItemOnly(h, id) ==
    << Del(<<"user", id>>) >>

UserInvalidation(h, id) ==
    IF h = "create" THEN << Del(<<"list", "users">>) >>
    ELSE << Del(<<"user", id>>), Del(<<"list", "users">>) >>

Invalidation(kind, h, id) ==
    CASE kind = "song" -> SongInvalidation(h, id)
      [] kind = "album" -> AlbumInvalidation(h, id)
      [] kind = "playlist" -> PlaylistInvalidation(h, id)
      [] kind = "user" -> UserInvalidation(h, id)

(***************************************************************************)
(* Request handlers.  h names the handler within the routes of one kind:   *)
(* "create", "list", "show", "update", "delete", and "get_all_artists"     *)
(* (songs), "get_album_song_count" (albums).  body is the value an update  *)
(* or a create sets, or "empty" for an update that sets no field.          *)
(***************************************************************************)
Reads == {"list", "show", "get_all_artists", "get_album_song_count"}

Mutations == {"create", "update", "delete"}

NoId == "-"

CacheKey(h, kind, id) ==
    CASE h = "list" -> ListKey(kind)
      [] h = "show" -> ItemKey(kind, id)
      [] h = "get_all_artists" -> ArtistsKey
      [] h = "get_album_song_count" -> SongCountKey(id)

\* Handlers that pass the single-item TTL whatever they cache.
TtlAlwaysSingle(h) == cache_ttl_single

Ttl(h) ==
    CASE h = "list" -> cache_ttl_list
      [] h = "show" -> cache_ttl_single
      [] h = "get_all_artists" -> cache_ttl_aggregation
      [] h = "get_album_song_count" -> cache_ttl_aggregation

\* The load of a read handler from the primary store.
Loader(h, kind, id, d) ==
    CASE h = "list" -> ListValue(d, kind)
      [] h = "show" -> FindOne(d, kind, id)
      [] h = "get_all_artists" -> ArtistsValue(d)
      [] h = "get_album_song_count" -> SongCountValue(d, id)

\* What a read handler answers when its load finds no document: show_* raise 404,
\* get_album_song_count raises 404 inside its own try/except Exception, which
\* turns it into 500; a list or a grouping is never missing.
NotFoundStatus(h) == IF h = "get_album_song_count" THEN 500 ELSE 404

\* A handler that takes every load for a record.
FoundAlways(h, value) == TRUE

Found(h, value) == h \in {"list", "get_all_artists"} \/ value.data # {}

Response(status, data) == [status |-> status, data |-> data]

NoResponse == Response(0, {})

\* The write of a mutation handler to the primary store.
Write(h, kind, id, body, d) ==
    CASE h = "create" -> [d EXCEPT ![kind][id] = body]
      [] h = "update" -> [d EXCEPT ![kind][id] = body]
      [] h = "delete" -> [d EXCEPT ![kind][id] = Absent]

SuccessStatus(h) ==
    CASE h = "create" -> 201
      [] h = "delete" -> 204
      [] OTHER -> 200

\* The step a handler runs first, and the step that follows a finished one.
\* An update handler that writes and invalidates also when its body is empty.
FirstStepAlwaysCommit(h, body) == IF h \in Reads THEN "get" ELSE "commit"

FirstStep(h, body) ==
    IF h \in Reads THEN "get"
    ELSE IF h = "update" /\ body = "empty" THEN "find"
    ELSE "commit"

\* A handler that starts its invalidation without awaiting it and returns.
NextStepNoAwait(h, step) ==
    CASE step = "get" -> "load"
      [] step = "load" -> "set"
      [] step = "commit" -> "return"
      [] step = "invalidate" -> "return"
      [] OTHER -> "done"

NextStep(h, step) ==
    CASE step = "get" -> "load"
      [] step = "load" -> "set"
      [] step = "commit" -> "invalidate"
      [] step = "invalidate" -> "return"
      [] OTHER -> "done"

\* The outcome of a handler on the primary store alone: its response and the
\* store it leaves.
Outcome(h, kind, id, body, d) ==
    IF h \in Reads
    THEN [resp |-> IF Found(h, Loader(h, kind, id, d))
                   THEN Response(200, Loader(h, kind, id, d).data)
                   ELSE Response(NotFoundStatus(h), {}),
          db |-> d]
    ELSE IF h = "create"
    THEN [resp |-> Response(201, {<<id, body>>}), db |-> Write(h, kind, id, body, d)]
    ELSE IF d[kind][id] = Absent
    THEN [resp |-> Response(404, {}), db |-> d]
    ELSE IF h = "delete"
    THEN [resp |-> Response(204, {}), db |-> Write(h, kind, id, body, d)]
    ELSE IF body = "empty"
    THEN [resp |-> Response(200, {<<id, d[kind][id]>>}), db |-> d]
    ELSE [resp |-> Response(200, {<<id, body>>}), db |-> Write(h, kind, id, body, d)]

\* What a request records of the other request in flight when it begins.  A
\* request also records whether a purge was aimed at its key since it answered
\* (purgedSince) and whether its set_cache ran after that of the other request
\* (afterPeer).
NoPeer ==
    [pc |-> "idle", key |-> <<>>, status |-> 0, data |-> {}, purgedSince |-> FALSE]

Idle ==
    [h |-> "none", kind |-> "none", id |-> NoId, body |-> "empty", pc |-> "idle",
     committed |-> FALSE, purged |-> 0, hit |-> FALSE, loads |-> 0,
     value |-> NoValue, issued |-> 0, failed |-> 0, raised |-> FALSE,
     before |-> {}, expect |-> [resp |-> NoResponse, db |-> <<>>],
     peer |-> NoPeer, purgedSince |-> FALSE, afterPeer |-> FALSE]

Plan == Invalidation(req.kind, req.h, req.id)

\* The keys a delete_cache / delete_pattern call is aimed at.
Targets(step, key) ==
    IF step.op = "delete_cache" THEN step.arg = key ELSE Matches(step.arg, key)

Key2 == CacheKey(req2.h, req2.kind, req2.id)

\* What is kept of the set_cache and get_cache calls made on the manager itself:
\* per key the last set_cache call and the last one that stored its entry, the
\* last get_cache call, the key of the set_cache call that came just before, and
\* the number of clock steps.
NoGot == [key |-> <<>>, ret |-> Miss, at |-> 0, follows |-> FALSE]

NoCalls ==
    [written |-> <<>>, stored |-> <<>>, got |-> NoGot, justSet |-> <<>>, ticks |-> 0]

\* No delete_pattern call is running.
NoScan ==
    [pc |-> "idle", pattern |-> <<>>, cursor |-> 0, todo |-> {}, start |-> <<>>,
     scans |-> 0, deletes |-> 0, passed |-> <<>>, count |-> 0,
     failed |-> FALSE, raised |-> FALSE]

Key == CacheKey(req.h, req.kind, req.id)

\* The bookkeeping of one cache manager call r with backend outcome f: the calls
\* that reached the backend, those among them that failed, and whether one raised.
Called(q, r, f) ==
    [q EXCEPT !.issued = @ + (IF r.issued THEN 1 ELSE 0),
              !.failed = @ + (IF r.issued /\ f THEN 1 ELSE 0),
              !.raised = @ \/ r.raised]

\* The module global cache_manager of cache_manager.py and the calls of
\* get_cache_manager: whether the global is assigned, how many CacheManager
\* objects were created, how far the connect of the one assigned has come, and
\* per caller its position and the state of the connect of what it was returned.
Callers == 1..MaxCallers

NoManager ==
    [assigned |-> FALSE, created |-> 0, connect |-> "none",
     pc |-> [c \in Callers |-> "idle"], got |-> [c \in Callers |-> "none"]]

\* The outcomes of a backend command: it fails only on a faulty backend.
Faults == IF backend = "faulty" THEN BOOLEAN ELSE {FALSE}

TypeOK ==
    /\ client \in {"none", "open", "closed"}
    /\ backend \in {"healthy", "faulty", "stuck"}
    /\ ops \in 0..MaxOps
    /\ req.pc \in {"idle", "load", "set", "invalidate", "return", "done"}
    /\ startup \in {"pending", "complete", "failed"}
    /\ now \in Nat
    /\ req2.pc \in {"idle", "load", "set", "done"}

\* The state once the application has started (startup_event ran init_cache).
Init ==
    /\ db = [k \in Kinds |-> [i \in Ids |-> IF i = IdSeq[1] THEN "A" ELSE Absent]]
    /\ nextId = [k \in Kinds |-> 2]
    /\ cache = <<>>
    /\ client = "open"
    /\ backend \in {"healthy", "faulty"}
    /\ req = Idle
    /\ resp = NoResponse
    /\ ops = 0
    /\ startup = "complete"
    /\ now = 0
    /\ calls = NoCalls
    /\ scan = NoScan
    /\ req2 = Idle
    /\ resp2 = NoResponse
    /\ gcm = NoManager

\* The state after construction: CacheManager.__init__ leaves self.client None.
InitLife ==
    /\ db = [k \in Kinds |-> [i \in Ids |-> IF i = IdSeq[1] THEN "A" ELSE Absent]]
    /\ nextId = [k \in Kinds |-> 2]
    /\ cache = <<>>
    /\ client = "none"
    /\ backend \in {"healthy", "faulty"}
    /\ req = Idle
    /\ resp = NoResponse
    /\ ops = 0
    /\ startup = "pending"
    /\ now = 0
    /\ calls = NoCalls
    /\ scan = NoScan
    /\ req2 = Idle
    /\ resp2 = NoResponse
    /\ gcm = NoManager

(***************************************************************************)
(* Application start-up and shutdown: init_cache / close_cache.            *)
(***************************************************************************)
\* startup_event awaits init_cache, which awaits connect.  f tells whether
\* from_url or ping fails, assigned whether self.client was assigned before the
\* failure.  connect logs the failure and raises it again, init_cache and
\* startup_event do not catch it: the start-up of the application fails.
Connect ==
    /\ req.pc = "idle"
    /\ client = "none"
    /\ startup = "pending"
    /\ \E f \in Faults, assigned \in BOOLEAN :
          /\ client' = IF ~f \/ assigned THEN "open" ELSE "none"
          /\ startup' = IF f THEN "failed" ELSE "complete"
    /\ UNCHANGED <<gcm, db, nextId, cache, backend, req, resp, ops,
                 now, calls, scan, req2, resp2>>

\* disconnect closes the client and leaves self.client assigned.
Disconnect ==
    /\ req.pc = "idle"
    /\ client # "none"
    /\ client' = "closed"
    /\ UNCHANGED <<gcm, db, nextId, cache, backend, req, resp, ops,
                 startup, now, calls, scan, req2, resp2>>

(***************************************************************************)
(* A request arrives: the handler runs up to and including its first call  *)
(* of the cache or of the primary store.  The later steps run one call     *)
(* each.                                                                   *)
(***************************************************************************)
PeerOf(q, r) ==
    IF q.pc = "idle" THEN NoPeer
    ELSE [pc |-> q.pc,
          key |-> IF q.h \in Reads THEN CacheKey(q.h, q.kind, q.id) ELSE <<>>,
          status |-> r.status,
          data |-> r.data, purgedSince |-> q.purgedSince]

NewRequest(h, kind, id, body) ==
    [Idle EXCEPT !.h = h, !.kind = kind, !.id = id, !.body = body,
                 !.pc = FirstStep(h, body),
                 !.before = DOMAIN cache,
                 !.expect = Outcome(h, kind, id, body, db),
                 !.peer = PeerOf(req2, resp2)]

Accept ==
    /\ req.pc = "idle"
    /\ startup # "failed"
    /\ ops < MaxOps
    /\ ops' = ops + 1

Finish(q, status, data) ==
    /\ req' = [q EXCEPT !.pc = "done"]
    /\ resp' = Response(status, data)

Continue(q, step) ==
    /\ req' = [q EXCEPT !.pc = step]
    /\ resp' = NoResponse

(***************************************************************************)
(* Read handlers: get_cache, the load on a miss, set_cache.                *)
(***************************************************************************)
ReadGet(q) ==
    \E f \in Faults :
       LET r == GetCache(cache, client, CacheKey(q.h, q.kind, q.id), f)
           q1 == [Called(q, r, f) EXCEPT !.hit = r.ret.hit]
       IN  /\ cache' = r.cache
           /\ IF r.raised THEN Finish(q1, 500, {})
              ELSE IF r.ret.hit THEN Finish(q1, 200, r.ret.value.data)
              ELSE Continue(q1, NextStep(q.h, "get"))

StartRead ==
    /\ Accept
    /\ \E kind \in Kinds, id \in Ids :
          \/ ReadGet(NewRequest("list", kind, NoId, "empty"))
          \/ ReadGet(NewRequest("show", kind, id, "empty"))
          \/ kind = "song" /\ ReadGet(NewRequest("get_all_artists", kind, NoId, "empty"))
          \/ kind = "album" /\ ReadGet(NewRequest("get_album_song_count", kind, id, "empty"))
    /\ UNCHANGED <<gcm, db, nextId, client, backend,
                 startup, now, calls, scan, req2, resp2>>

ReadLoad ==
    /\ req.pc = "load"
    /\ LET value == Loader(req.h, req.kind, req.id, db)
           q == [req EXCEPT !.loads = @ + 1, !.value = value]
       IN  IF Found(req.h, value)
           THEN Continue(q, NextStep(req.h, "load"))
           ELSE Finish(q, NotFoundStatus(req.h), {})
    /\ UNCHANGED <<gcm, db, nextId, cache, client, backend, ops,
                 startup, now, calls, scan, req2, resp2>>

ReadSet ==
    /\ req.pc = "set"
    /\ \E f \in Faults :
         LET r == SetCache(cache, client, Key, req.value, Ttl(req.h), f)
             q == [Called(req, r, f) EXCEPT
                      !.afterPeer = req2.pc = "done" /\ ~req2.hit]
         IN  /\ cache' = r.cache
             /\ IF r.raised THEN Finish(q, 500, {})
                ELSE Finish(q, 200, req.value.data)
    /\ UNCHANGED <<gcm, db, nextId, client, backend, ops,
                 startup, now, calls, scan, req2, resp2>>

(***************************************************************************)
(* Mutation handlers: the write to the primary store, the invalidation,    *)
(* the return.                                                             *)
(***************************************************************************)
\* insert_one, find_one_and_update, delete_one; an update that sets no field
\* only reads the stored document (find_one).
FirstCall(q) ==
    IF q.pc = "find"
    THEN /\ IF db[q.kind][q.id] # Absent
            THEN Finish(q, 200, {<<q.id, db[q.kind][q.id]>>})
            ELSE Finish(q, 404, {})
         /\ UNCHANGED <<db, nextId>>
    ELSE IF q.h = "create" \/ db[q.kind][q.id] # Absent
    THEN /\ db' = Write(q.h, q.kind, q.id, q.body, db)
         /\ nextId' = IF q.h = "create"
                      THEN [nextId EXCEPT ![q.kind] = @ + 1] ELSE nextId
         /\ Continue([q EXCEPT !.committed = TRUE], NextStep(q.h, "commit"))
    ELSE /\ Finish(q, 404, {})
         /\ UNCHANGED <<db, nextId>>

\* insert_one gives the new document a fresh id.
StartCreate ==
    /\ Accept
    /\ \E kind \in Kinds, body \in Vals :
          /\ nextId[kind] <= MaxIds
          /\ FirstCall(NewRequest("create", kind, IdSeq[nextId[kind]], body))
    /\ UNCHANGED <<gcm, cache, client, backend,
                 startup, now, calls, scan, req2, resp2>>

StartUpdate ==
    /\ Accept
    /\ \E kind \in Kinds, id \in Ids, body \in Vals \cup {"empty"} :
          FirstCall(NewRequest("update", kind, id, body))
    /\ UNCHANGED <<gcm, cache, client, backend,
                 startup, now, calls, scan, req2, resp2>>

StartDelete ==
    /\ Accept
    /\ \E kind \in Kinds, id \in Ids :
          FirstCall(NewRequest("delete", kind, id, "empty"))
    /\ UNCHANGED <<gcm, cache, client, backend,
                 startup, now, calls, scan, req2, resp2>>

\* The next delete_cache / delete_pattern call of the handler's invalidation.
Invalidate ==
    /\ req.pc = "invalidate"
    /\ req.purged < Len(Plan)
    /\ LET step == Plan[req.purged + 1]
       IN  \E f \in Faults :
           \E partial \in IF f THEN SUBSET Matching(cache, step.arg) ELSE {{}} :
             LET r == Purge(cache, client, step, f, partial)
                 q == [Called(req, r, f) EXCEPT !.purged = @ + 1]
             IN  /\ cache' = r.cache
                 /\ IF r.raised THEN Finish(q, 500, {})
                    ELSE Continue(q, IF q.purged = Len(Plan)
                                     THEN NextStep(req.h, "invalidate")
                                     ELSE "invalidate")
                 /\ req2' = IF req2.pc = "done" /\ Targets(step, Key2)
                            THEN [req2 EXCEPT !.purgedSince = TRUE] ELSE req2
    /\ UNCHANGED <<gcm, db, nextId, client, backend, ops,
                 startup, now, calls, scan, resp2>>

Return ==
    /\ req.pc = "return"
    /\ Finish(req, SuccessStatus(req.h),
              IF req.h = "delete" THEN {} ELSE {<<req.id, db[req.kind][req.id]>>})
    /\ UNCHANGED <<gcm, db, nextId, cache, client, backend, ops,
                 startup, now, calls, scan, req2, resp2>>

\* The response has been sent: the request is over.
Close ==
    /\ req.pc = "done"
    /\ req' = Idle
    /\ resp' = NoResponse
    /\ UNCHANGED <<gcm, db, nextId, cache, client, backend, ops,
                 startup, now, calls, scan, req2, resp2>>

Next ==
    \/ StartRead
    \/ StartCreate
    \/ StartUpdate
    \/ StartDelete
    \/ ReadLoad
    \/ ReadSet
    \/ Invalidate
    \/ Return
    \/ Close

Spec == Init /\ [][Next]_vars

\* The requests together with start-up and shutdown, from construction on.
NextLife ==
    \/ Connect
    \/ Disconnect
    \/ Next

SpecLife == InitLife /\ [][NextLife]_vars

(***************************************************************************)
(* A second request in flight: a read handler whose steps interleave with  *)
(* those of the first request at every await.                              *)
(***************************************************************************)
NewRequest2(h, kind, id) ==
    [Idle EXCEPT !.h = h, !.kind = kind, !.id = id,
                 !.pc = FirstStep(h, "empty"),
                 !.before = DOMAIN cache,
                 !.expect = Outcome(h, kind, id, "empty", db),
                 !.peer = PeerOf(req, resp)]

Accept2 ==
    /\ req2.pc = "idle"
    /\ startup # "failed"
    /\ ops < MaxOps
    /\ ops' = ops + 1

Finish2(q, status, data) ==
    /\ req2' = [q EXCEPT !.pc = "done"]
    /\ resp2' = Response(status, data)

Continue2(q, step) ==
    /\ req2' = [q EXCEPT !.pc = step]
    /\ resp2' = NoResponse

ReadGet2(q) ==
    \E f \in Faults :
       LET r == GetCache(cache, client, CacheKey(q.h, q.kind, q.id), f)
           q1 == [Called(q, r, f) EXCEPT !.hit = r.ret.hit]
       IN  /\ cache' = r.cache
           /\ IF r.raised THEN Finish2(q1, 500, {})
              ELSE IF r.ret.hit THEN Finish2(q1, 200, r.ret.value.data)
              ELSE Continue2(q1, NextStep(q.h, "get"))

StartRead2 ==
    /\ Accept2
    /\ \E kind \in Kinds, id \in Ids :
          \/ ReadGet2(NewRequest2("list", kind, NoId))
          \/ ReadGet2(NewRequest2("show", kind, id))
          \/ kind = "song" /\ ReadGet2(NewRequest2("get_all_artists", kind, NoId))
          \/ kind = "album" /\ ReadGet2(NewRequest2("get_album_song_count", kind, id))
    /\ UNCHANGED <<gcm, db, nextId, client, backend, req, resp,
                 startup, now, calls, scan>>

ReadLoad2 ==
    /\ req2.pc = "load"
    /\ LET value == Loader(req2.h, req2.kind, req2.id, db)
           q == [req2 EXCEPT !.loads = @ + 1, !.value = value]
       IN  IF Found(req2.h, value)
           THEN Continue2(q, NextStep(req2.h, "load"))
           ELSE Finish2(q, NotFoundStatus(req2.h), {})
    /\ UNCHANGED <<gcm, db, nextId, cache, client, backend, req, resp, ops,
                 startup, now, calls, scan>>

ReadSet2 ==
    /\ req2.pc = "set"
    /\ \E f \in Faults :
         LET r == SetCache(cache, client, Key2, req2.value, Ttl(req2.h), f)
             q == [Called(req2, r, f) EXCEPT
                      !.afterPeer = req.pc = "done" /\ req.h \in Reads /\ ~req.hit]
         IN  /\ cache' = r.cache
             /\ IF r.raised THEN Finish2(q, 500, {})
                ELSE Finish2(q, 200, req2.value.data)
    /\ UNCHANGED <<gcm, db, nextId, client, backend, req, resp, ops,
                 startup, now, calls, scan>>

\* A request for the collection of the read in flight or answered in the second
\* place: any handler of that collection.
SameCollection ==
    /\ req2.pc # "idle"
    /\ \/ StartRead
       \/ StartCreate
       \/ StartUpdate
       \/ StartDelete
    /\ req'.kind = req2.kind

\* Two requests for one collection: a read handler (its response is kept once it
\* has answered) and, next to it, the handlers of that collection one after the
\* other.
NextRace ==
    \/ StartRead2
    \/ ReadLoad2
    \/ ReadSet2
    \/ SameCollection
    \/ ReadLoad
    \/ ReadSet
    \/ Invalidate
    \/ Return
    \/ Close

SpecRace == Init /\ [][NextRace]_vars

(***************************************************************************)
(* Entries and time.  setex gives an entry ttl seconds to live; the ttl of *)
(* an entry is what is left of them, and the backend drops the entry when  *)
(* nothing is left.  The calls are those the song handlers make:           *)
(* set_cache(cache_key, loaded value, ttl of a setting) and                *)
(* get_cache(cache_key).                                                   *)
(***************************************************************************)
\* An entry that never expires.
ExpireNever(c, d) == c

\* The backend content once d more seconds have passed.
Expire(c, d) ==
    [k \in {x \in DOMAIN c : c[x].ttl > d} |-> [c[k] EXCEPT !.ttl = @ - d]]

TtlKeys == {ListKey("song"), ItemKey("song", IdSeq[1])}

\* The values list_songs and show_song load for a song with artist "A" or "B".
TtlValues(key) ==
    LET d(v) == [k \in Kinds |-> [i \in Ids |-> IF i = IdSeq[1] THEN v ELSE Absent]]
    IN  IF key = ListKey("song")
        THEN {ListValue(d(v), "song") : v \in Vals}
        ELSE {FindOne(d(v), "song", IdSeq[1]) : v \in Vals}

\* The ttl list_songs and show_song pass with their key.
TtlOf(key) == IF key = ListKey("song") THEN Ttl("list") ELSE Ttl("show")

\* The steps of the clock: one second, and one second less than the list ttl.
Ticks == {1, cache_ttl_list - 1}

SetStep ==
    /\ \E key \in TtlKeys, f \in Faults :
       \E value \in TtlValues(key) :
         LET ttl == TtlOf(key)
             r == SetCache(cache, client, key, value, ttl, f)
         IN  /\ cache' = r.cache
             /\ calls' = [calls EXCEPT
                    !.written = (key :> [value |-> value, ttl |-> ttl, at |-> now,
                                         stored |-> r.issued /\ ~f]) @@ @,
                    !.stored = IF r.issued /\ ~f
                               THEN (key :> [value |-> value, ttl |-> ttl,
                                             at |-> now]) @@ @
                               ELSE @,
                    !.got = NoGot,
                    !.justSet = key]
    /\ UNCHANGED <<gcm, db, nextId, client, backend, req, resp, ops,
                 startup, now, scan, req2, resp2>>

GetStep ==
    /\ \E key \in TtlKeys, f \in Faults :
         LET r == GetCache(cache, client, key, f)
         IN  /\ cache' = r.cache
             /\ calls' = [calls EXCEPT
                    !.got = [key |-> key, ret |-> r.ret, at |-> now,
                             follows |-> calls.justSet = key],
                    !.justSet = <<>>]
    /\ UNCHANGED <<gcm, db, nextId, client, backend, req, resp, ops,
                 startup, now, scan, req2, resp2>>

\* The clock of the backend advances.
Tick ==
    /\ calls.ticks < MaxTicks
    /\ \E d \in Ticks :
         /\ now' = now + d
         /\ cache' = Expire(cache, d)
    /\ calls' = [calls EXCEPT !.got = NoGot, !.justSet = <<>>, !.ticks = @ + 1]
    /\ UNCHANGED <<gcm, db, nextId, client, backend, req, resp, ops,
                 startup, scan, req2, resp2>>

NextTtl ==
    \/ SetStep
    \/ GetStep
    \/ Tick

SpecTtl == Init /\ [][NextTtl]_vars

(***************************************************************************)
(* delete_pattern command by command: the loop of scan and delete.  The    *)
(* backend walks its keys; todo holds those the walk has not passed yet,   *)
(* and the cursor it returns is 0 when none is left.  One scan passes some *)
(* of them and returns those that match (possibly none); it may pass keys  *)
(* again that an earlier scan passed, and returns them if they still exist.*)
(* A scan passes one or two keys for the first time.                       *)
(***************************************************************************)
\* A loop that stops after its first scan whatever cursor came back.
LoopEndsAtOnce(cursor) == TRUE

\* if cursor == 0: break
LoopEnds(cursor) == cursor = 0

\* A loop that sends delete for every batch, empty or not.
SendsDeleteAlways(keys) == TRUE

\* if keys: await self.client.delete(*keys)
SendsDelete(keys) == keys # {}

\* The patterns the invalidate_* methods pass to delete_pattern.
Patterns ==
    {step.arg : step \in {invalidate_aggregations[i] : i \in 1..3}
                         \cup {invalidate_song_cache(NoId)[i] : i \in 1..3}}

\* The reads whose value set_cache stores, on a store that holds every id.
StoreFull == [k \in Kinds |-> [i \in Ids |-> "A"]]

Cacheable ==
    {[h |-> "list", kind |-> k, id |-> NoId] : k \in Kinds}
    \cup {[h |-> "get_all_artists", kind |-> "song", id |-> NoId]}
    \cup {[h |-> "get_album_song_count", kind |-> "album", id |-> i] : i \in Ids}

\* The cache once the reads of the set rs have each missed and stored their value.
Populated(rs) ==
    LET key(r) == CacheKey(r.h, r.kind, r.id)
        of(k) == CHOOSE r \in rs : key(r) = k
    IN  [k \in {key(r) : r \in rs} |->
            [text |-> JsonDumps(Loader(of(k).h, of(k).kind, of(k).id, StoreFull)).text,
             ttl |-> Ttl(of(k).h)]]

\* A running application whose cache was populated by reads.
InitScan ==
    /\ db = StoreFull
    /\ nextId = [k \in Kinds |-> MaxIds + 1]
    /\ cache \in {Populated(rs) : rs \in SUBSET Cacheable}
    /\ client = "open"
    /\ backend \in {"healthy", "faulty"}
    /\ req = Idle
    /\ resp = NoResponse
    /\ ops = 0
    /\ startup = "complete"
    /\ now = 0
    /\ calls = NoCalls
    /\ scan = NoScan
    /\ req2 = Idle
    /\ resp2 = NoResponse
    /\ gcm = NoManager

\* delete_pattern(pattern) up to its loop: cursor = 0, count = 0.
ScanBegin ==
    /\ scan.pc = "idle"
    /\ \E pattern \in Patterns :
         scan' = [NoScan EXCEPT !.pc = IF NoClient(client) THEN "done" ELSE "loop",
                                !.pattern = pattern,
                                !.todo = DOMAIN cache,
                                !.start = cache,
                                !.passed = [k \in DOMAIN cache |-> 0]]
    /\ UNCHANGED <<gcm, db, nextId, cache, client, backend, req, resp, ops,
                 startup, now, calls, req2, resp2>>

\* One turn of the loop: scan, delete of the batch, test of the cursor.  An error
\* of either command ends the loop in the except clause.
ScanTurn ==
    /\ scan.pc = "loop"
    /\ \E fscan \in Faults :
       \E fdelete \in IF fscan THEN {FALSE} ELSE Faults :
       \E walked \in IF scan.todo = {} THEN {{}}
                     ELSE {{a, b} : a \in scan.todo, b \in scan.todo} :
       \E again \in {{}, DOMAIN scan.start \ scan.todo} :
         LET keys == {k \in (walked \cup again) \cap DOMAIN cache :
                         Matches(scan.pattern, k)}
             cursor == IF backend = "stuck" THEN (IF scan.cursor = 1 THEN 2 ELSE 1)
                       ELSE Cardinality(scan.todo \ walked)
             scanned == [scan EXCEPT !.scans = IF @ < MaxScans THEN @ + 1 ELSE @,
                                     !.todo = @ \ walked,
                                     !.cursor = cursor]
             sent == [scanned EXCEPT
                         !.deletes = @ + 1,
                         !.passed = [k \in DOMAIN @ |->
                                        IF k \in keys THEN @[k] + 1 ELSE @[k]]]
         IN  IF fscan
             THEN /\ scan' = [scan EXCEPT !.scans = IF @ < MaxScans THEN @ + 1 ELSE @,
                                          !.failed = TRUE, !.pc = "done"]
                  /\ cache' = cache
             ELSE IF ~SendsDelete(keys)
             THEN /\ scan' = [scanned EXCEPT
                                 !.pc = IF LoopEnds(cursor) THEN "done" ELSE "loop"]
                  /\ cache' = cache
             ELSE IF fdelete
             THEN /\ scan' = [sent EXCEPT !.failed = TRUE, !.pc = "done"]
                  /\ cache' = cache
             ELSE /\ scan' = [sent EXCEPT
                                 !.count = @ + Cardinality(keys),
                                 !.pc = IF LoopEnds(cursor) THEN "done" ELSE "loop"]
                  /\ cache' = Without(cache, keys)
    /\ UNCHANGED <<gcm, db, nextId, client, backend, req, resp, ops,
                 startup, now, calls, req2, resp2>>

NextScan ==
    \/ ScanBegin
    \/ ScanTurn

SpecScan == InitScan /\ [][NextScan]_vars

\* The same application in front of a backend whose scan never returns cursor 0.
InitStuck ==
    /\ db = StoreFull
    /\ nextId = [k \in Kinds |-> MaxIds + 1]
    /\ cache \in {Populated(rs) : rs \in SUBSET Cacheable}
    /\ client = "open"
    /\ backend = "stuck"
    /\ req = Idle
    /\ resp = NoResponse
    /\ ops = 0
    /\ startup = "complete"
    /\ now = 0
    /\ calls = NoCalls
    /\ scan = NoScan
    /\ req2 = Idle
    /\ resp2 = NoResponse
    /\ gcm = NoManager

\* The event loop resumes the coroutine whenever the backend has answered.
SpecStuck == InitStuck /\ [][NextScan]_vars /\ WF_vars(ScanTurn)

(***************************************************************************)
(* Reads in front of a cache that holds an entry no json.loads accepts (cut *)
(* short, or written by another program).                                  *)
(***************************************************************************)
CorruptText == <<"bytes">>

\* The read handlers and their arguments.
AllReads ==
    Cacheable \cup {[h |-> "show", kind |-> k, id |-> i] : k \in Kinds, i \in Ids}

\* A running application whose cache is empty or holds one such entry under the
\* key of a read.
InitCorrupt ==
    /\ db = StoreFull
    /\ nextId = [k \in Kinds |-> MaxIds + 1]
    /\ cache \in {<<>>} \cup
                 {CacheKey(r.h, r.kind, r.id) :> [text |-> CorruptText, ttl |-> Ttl(r.h)] :
                     r \in AllReads}
    /\ client = "open"
    /\ backend \in {"healthy", "faulty"}
    /\ req = Idle
    /\ resp = NoResponse
    /\ ops = 0
    /\ startup = "complete"
    /\ now = 0
    /\ calls = NoCalls
    /\ scan = NoScan
    /\ req2 = Idle
    /\ resp2 = NoResponse
    /\ gcm = NoManager

NextReads ==
    \/ StartRead
    \/ ReadLoad
    \/ ReadSet
    \/ Close

SpecCorrupt == InitCorrupt /\ [][NextReads]_vars

(***************************************************************************)
(* get_cache_manager, called by coroutines of one event loop.              *)
(***************************************************************************)
\* get_cache_manager up to its await: `if cache_manager is None:` and the
\* assignment run without a suspension between them; a caller that finds the
\* global assigned returns it at once.
GetCacheManager(c) ==
    /\ gcm.pc[c] = "idle"
    /\ gcm' = IF ~gcm.assigned
              THEN [gcm EXCEPT !.assigned = TRUE, !.created = @ + 1,
                               !.connect = "running", !.pc[c] = "connect"]
              ELSE [gcm EXCEPT !.pc[c] = "returned", !.got[c] = gcm.connect]
    /\ UNCHANGED <<db, nextId, cache, client, backend, req, resp, ops,
                 startup, now, calls, scan, req2, resp2>>

\* await cache_manager.connect() completes: the manager is returned, or connect
\* re-raises and the global stays assigned.
ConnectReturns(c) ==
    /\ gcm.pc[c] = "connect"
    /\ \E f \in Faults :
         gcm' = IF f
                THEN [gcm EXCEPT !.connect = "failed", !.pc[c] = "raised"]
                ELSE [gcm EXCEPT !.connect = "done", !.pc[c] = "returned",
                                 !.got[c] = "done"]
    /\ UNCHANGED <<db, nextId, cache, client, backend, req, resp, ops,
                 startup, now, calls, scan, req2, resp2>>

\* The caller is ready to call again.
CallAgain(c) ==
    /\ gcm.pc[c] \in {"returned", "raised"}
    /\ gcm' = [gcm EXCEPT !.pc[c] = "idle", !.got[c] = "none"]
    /\ UNCHANGED <<db, nextId, cache, client, backend, req, resp, ops,
                 startup, now, calls, scan, req2, resp2>>

NextManager ==
    \E c \in Callers :
       \/ GetCacheManager(c)
       \/ ConnectReturns(c)
       \/ CallAgain(c)

SpecManager == Init /\ [][NextManager]_vars

(***************************************************************************)
(* Single-item reads whose path parameter is no ObjectId.  show_* build    *)
(* their key from the raw text and call get_cache before ObjectId(id) is   *)
(* evaluated.                                                              *)
(***************************************************************************)
\* show_<kind>(id) for an id that is no ObjectId: get_cache(f"{kind}:{id}"); on a
\* miss ObjectId(id) raises InvalidId, on a hit the cached value of the other
\* view has no "_id" and the conversion raises KeyError: 500 either way.
StartShowRaw ==
    /\ Accept
    /\ \E kind \in Kinds, id \in RawIds, f \in Faults :
         LET q == [Idle EXCEPT !.h = "show", !.kind = kind, !.id = id,
                               !.before = DOMAIN cache]
             r == GetCache(cache, client, CacheKey("show", kind, id), f)
         IN  /\ cache' = r.cache
             /\ Finish([Called(q, r, f) EXCEPT !.hit = r.ret.hit], 500, {})
    /\ UNCHANGED <<gcm, db, nextId, client, backend,
                 startup, now, calls, scan, req2, resp2>>

NextPath ==
    \/ StartRead
    \/ StartShowRaw
    \/ ReadLoad
    \/ ReadSet
    \/ Close

SpecPath == Init /\ [][NextPath]_vars

(***************************************************************************)
(* Properties.                                                             *)
(***************************************************************************)
Cached(key) == key \in DOMAIN cache

\* A mutation handler of the given kind has written to the primary store and
\* returned, and no backend command of its invalidation failed.
Returned(kind) ==
    /\ req.pc = "done"
    /\ req.kind = kind
    /\ req.h \in Mutations
    /\ req.committed
    /\ req.failed = 0
    /\ client = "open"

\* C1: when a song mutation with id i that wrote to the primary store returns
\* (backend healthy, nothing else in flight), the cache holds none of song:i,
\* list:songs, aggregation:artists, album:song_count:*, playlist:*.
C1_SongMutationPurges ==
    Returned("song") =>
        /\ ~Cached(ItemKey("song", req.id))
        /\ ~Cached(ListKey("song"))
        /\ ~Cached(ArtistsKey)
        /\ Matching(cache, <<"album", "song_count", "*">>) = {}
        /\ Matching(cache, <<"playlist", "*">>) = {}

\* C2: on a healthy backend, a get_all_artists that answers after update_song
\* changed an artist (the songs are the same, no song was created or deleted)
\* returns the grouping of the primary store as it is now, never the grouping
\* cached before the update.
C2_ArtistsFreshAfterUpdate ==
    (/\ backend = "healthy"
     /\ req.pc = "done"
     /\ req.h = "get_all_artists"
     /\ resp.status = 200
     /\ {p[2] : p \in resp.data} = Existing(db, "song"))
    => resp.data = ArtistsValue(db).data

\* C3: when an album mutation with id a that wrote to the primary store returns
\* (backend healthy, nothing else in flight), the cache holds none of album:a,
\* album:song_count:a, list:albums, artists:*.
C3_AlbumMutationPurges ==
    Returned("album") =>
        /\ ~Cached(ItemKey("album", req.id))
        /\ ~Cached(SongCountKey(req.id))
        /\ ~Cached(ListKey("album"))
        /\ Matching(cache, <<"artists", "*">>) = {}

\* C4: when a playlist mutation with id p that wrote to the primary store
\* returns (backend healthy, nothing else in flight), the cache holds none of
\* playlist:songs:p, playlist:aggregation:p, list:playlists.
C4_PlaylistMutationPurges ==
    Returned("playlist") =>
        /\ ~Cached(<<"playlist", "songs", req.id>>)
        /\ ~Cached(<<"playlist", "aggregation", req.id>>)
        /\ ~Cached(ListKey("playlist"))

\* C5: when a user mutation with id u that wrote to the primary store returns
\* (backend healthy, nothing else in flight), the cache holds neither user:u
\* nor list:users.
C5_UserMutationPurges ==
    Returned("user") =>
        /\ ~Cached(ItemKey("user", req.id))
        /\ ~Cached(ListKey("user"))

\* C5 witness: a user mutation returned and list:users was cached when it began.
C5_Witness ==
    /\ Returned("user")
    /\ ListKey("user") \in req.before

\* C6: on a healthy backend, for every kind, a list read that answers after a
\* mutation of that kind returned gives the listing of the primary store as it
\* is now, never the listing cached before the mutation.
C6_ListFreshAfterMutation ==
    (/\ backend = "healthy"
     /\ req.pc = "done"
     /\ req.h = "list"
     /\ resp.status = 200)
    => resp.data = ListValue(db, req.kind).data

\* C7: in every mutation handler that writes to the primary store the write comes
\* first, then every delete_cache / delete_pattern of its invalidation, then the
\* return: no purge runs before the write, the handler does not reach its return
\* before its last purge, and it answers only at its return.
C7_CommitThenPurgeThenReturn ==
    /\ req.purged > 0 => req.committed
    /\ (req.pc \in {"return", "done"} /\ req.committed) => req.purged = Len(Plan)
    /\ (req.h \in Mutations /\ req.committed /\ resp # NoResponse) => req.pc = "done"

\* C7 witness: a song mutation returned after its write and its three purges.
C7_Witness ==
    /\ req.pc = "done"
    /\ req.h \in Mutations
    /\ req.kind = "song"
    /\ req.committed
    /\ req.purged = 3
    /\ resp.status \in {200, 201, 204}

\* C8: a backend error inside get_cache, set_cache, delete_cache or delete_pattern
\* never raises to the caller; a failing get_cache is a miss; a failing set_cache
\* or delete_cache leaves the cache contents as they were.
C8_FailOpen ==
    [][ /\ ~req'.raised
        /\ req'.hit => req'.failed = 0
        /\ (/\ req'.failed = req.failed + 1
            /\ \/ req.pc = "set"
               \/ req.pc = "invalidate" /\ Plan[req.purged + 1].op = "delete_cache")
           => cache' = cache ]_vars

\* C8 witness: a list read whose get_cache and set_cache both failed at the
\* backend answered 200.
C8_Witness ==
    /\ req.pc = "done"
    /\ req.h = "list"
    /\ req.failed = 2
    /\ resp.status = 200

\* C9: while the cache manager has no usable connection (connect never called,
\* or disconnect already called), no cache call issues a backend command and
\* every get_cache is a miss.
C9_NoConnectionNoCommand ==
    client \in {"none", "closed"} => (req.issued = 0 /\ ~req.hit)

\* C10: a handler all of whose cache backend calls fail ends with the same
\* response and the same primary store as on an empty healthy cache, which is
\* the outcome of the handler on the primary store alone.
C10_CacheFaultsDoNotChangeOutcome ==
    (/\ req.pc = "done"
     /\ \/ req.failed = req.issued
        \/ req.before = {} /\ req.failed = 0)
    => (resp = req.expect.resp /\ db = req.expect.db)

\* C10 witness: create_playlist answered 201 although its three purges failed.
C10_Witness ==
    /\ req.pc = "done"
    /\ req.h = "create"
    /\ req.kind = "playlist"
    /\ req.failed = 3
    /\ req.issued = 3
    /\ resp.status = 201

\* C11: when the backend is unreachable while the connection is established,
\* connect absorbs the failure: no exception reaches start-up, so the start-up of
\* the application never fails and requests are still accepted.
C11_ConnectFailureAbsorbed == startup # "failed"

\* C12: the connection is established on first use: on a reachable backend, once
\* a request has made a cache call (the get_cache of a read, a delete_cache or
\* delete_pattern of an invalidation) the manager is connected.
C12_ConnectedAfterFirstCall ==
    (/\ backend = "healthy"
     /\ req.h \in Reads \/ req.purged > 0)
    => client = "open"

\* C13: a read handler that missed has invoked its loader exactly once, answers
\* 200 with the loaded value whether its set_cache succeeded or failed, and never
\* answers not-found for a record the primary store holds.
C13_MissLoadsOnceAndReturns ==
    (/\ req.pc = "done"
     /\ req.h \in Reads
     /\ ~req.hit)
    => /\ req.loads = 1
       /\ Found(req.h, req.value) => resp = Response(200, req.value.data)
       /\ Found(req.h, Loader(req.h, req.kind, req.id, db)) => resp.status = 200

\* C13 witness: get_all_artists missed, loaded once, its set_cache failed at the
\* backend, and it answered the loaded grouping.
C13_Witness ==
    /\ req.pc = "done"
    /\ req.h = "get_all_artists"
    /\ ~req.hit
    /\ req.loads = 1
    /\ req.issued = 2
    /\ req.failed = 1
    /\ ~Cached(ArtistsKey)
    /\ resp = Response(200, ArtistsValue(db).data)

\* C14: a read handler that hit did not invoke its loader and answers the cached
\* value; and, on a healthy backend, a read that begins after a read of the same
\* key has answered, with no purge aimed at that key in between (no time passes,
\* so no entry expires), answers the same data, whatever happened to the primary
\* store in between.
C14_HitReturnsCachedAndRepeatable ==
    /\ (/\ req.pc = "done"
        /\ req.h \in Reads
        /\ req.hit)
       => /\ req.loads = 0
          /\ resp.status = 200
          /\ (Cached(Key) /\ (req2.hit \/ req2.pc # "done" \/ req.peer.pc = "done"))
             => resp.data = JsonLoads(cache[Key].text).value.data
    /\ (/\ backend = "healthy"
        /\ req.pc = "done"
        /\ req.h \in Reads
        /\ resp.status = 200
        /\ req.peer.pc = "done"
        /\ req.peer.key = Key
        /\ req.peer.status = 200
        /\ ~req.peer.purgedSince)
       => resp.data = req.peer.data

\* C15: on a connected healthy backend, get_cache(k) called right after
\* set_cache(k, v, ttl), for every key, value and ttl > 0, is a hit that returns v.
C15_SetThenGetReturnsValue ==
    (/\ backend = "healthy"
     /\ calls.got.follows)
    => calls.got.ret = Hit(calls.written[calls.got.key].value)

\* C16: on a healthy backend, for a key whose last set_cache(k, v, ttl) stored
\* its entry, get_cache(k) is a hit returning v while less than ttl seconds have
\* passed since that call, and a miss once more than ttl seconds have passed.
C16_HitBeforeTtlMissAfter ==
    (/\ backend = "healthy"
     /\ calls.got.key \in DOMAIN calls.written
     /\ calls.written[calls.got.key].stored)
    => LET w == calls.written[calls.got.key]
           elapsed == calls.got.at - w.at
       IN  /\ elapsed < w.ttl => calls.got.ret = Hit(w.value)
           /\ elapsed > w.ttl => calls.got.ret = Miss

\* C16 witness: list:songs was set with the list ttl (300) and get_cache missed
\* it 301 seconds later.
C16_Witness ==
    /\ backend = "healthy"
    /\ calls.got.key = ListKey("song")
    /\ ListKey("song") \in DOMAIN calls.written
    /\ calls.written[ListKey("song")].stored
    /\ calls.written[ListKey("song")].ttl = cache_ttl_list
    /\ calls.got.at - calls.written[ListKey("song")].at = cache_ttl_list + 1
    /\ calls.got.ret = Miss

\* C17: when delete_pattern(p) has returned on a healthy backend (no other
\* writer), none of the keys that matched p when it began is left, and each of
\* them was passed to a backend delete exactly once, however the scan split
\* them into batches.
C17_PatternDeletesAllOnce ==
    (/\ backend = "healthy"
     /\ scan.pc = "done")
    => \A k \in DOMAIN scan.start :
          Matches(scan.pattern, k) => (~Cached(k) /\ scan.passed[k] = 1)

\* C17 witness: delete_pattern("list:*") returned after deleting the four list
\* keys in more than one batch.
C17_Witness ==
    /\ backend = "healthy"
    /\ scan.pc = "done"
    /\ scan.pattern = <<"list", "*">>
    /\ Cardinality(Matching(scan.start, scan.pattern)) = 4
    /\ scan.deletes >= 2
    /\ scan.count = 4

\* C18: a delete_pattern(p) that began when no key matched p issues no backend
\* delete, leaves the cache as it was and raises nothing, and on a healthy
\* backend it returns without a failed command, also when its scan takes several
\* turns that each return an empty batch.
C18_NoMatchNoEffect ==
    (/\ scan.pc # "idle"
     /\ Matching(scan.start, scan.pattern) = {})
    => /\ scan.deletes = 0
       /\ cache = scan.start
       /\ ~scan.raised
       /\ backend = "healthy" => ~scan.failed
       /\ scan.pc = "done" => (scan.count = 0 /\ (scan.failed \/ scan.cursor = 0))

\* C18 witness: delete_pattern("artists:*") returned from a cache of several keys,
\* none matching, after more than one scan.
C18_Witness ==
    /\ backend = "healthy"
    /\ scan.pc = "done"
    /\ scan.pattern = <<"artists", "*">>
    /\ Cardinality(DOMAIN scan.start) >= 2
    /\ scan.scans >= 2
    /\ scan.deletes = 0
    /\ cache = scan.start

\* Both requests are reads of one key that have answered, both missed (the
\* request that came second called get_cache before the first called set_cache),
\* and both loads found their record.
BothMissed ==
    /\ req.pc = "done"
    /\ req2.pc = "done"
    /\ req.h \in Reads
    /\ Key = Key2
    /\ ~req.hit
    /\ ~req2.hit
    /\ req.peer.pc \in {"load", "set"}
    /\ Found(req.h, req.value)
    /\ Found(req2.h, req2.value)

\* C19: two reads of one uncached key that both missed have each invoked the
\* loader once and gone through set_cache, neither raised, each answers the value
\* it loaded, and (healthy backend) the key ends up cached with the value of the
\* set_cache that ran last.
C19_StampedeLastWriterWins ==
    BothMissed
    => /\ req.loads = 1
       /\ req2.loads = 1
       /\ ~req.raised
       /\ ~req2.raised
       /\ resp = Response(200, req.value.data)
       /\ resp2 = Response(200, req2.value.data)
       /\ backend = "healthy"
          => /\ Cached(Key)
             /\ JsonLoads(cache[Key].text).value.data
                  = (IF req.afterPeer THEN req.value.data ELSE req2.value.data)

\* A key some delete_cache / delete_pattern of the running mutation is aimed at.
Targeted(k) == \E i \in 1..Len(Plan) : Targets(Plan[i], k)

CachedData(k) == JsonLoads(cache[k].text).value.data

\* A mutation that wrote to the primary store has returned on a healthy backend.
MutationReturned ==
    /\ backend = "healthy"
    /\ req.pc = "done"
    /\ req.h \in Mutations
    /\ req.committed

\* After a mutation returned, a key its invalidation was aimed at is cached only
\* if the read next to it stored it, and it then holds data that differ from the
\* primary store only if that read had loaded before the mutation wrote (it was
\* about to call set_cache when the mutation began) and stored what it had loaded.
C20_OnlyTheRaceLeavesStale ==
    MutationReturned
    => \A k \in DOMAIN cache :
          Targeted(k)
          => /\ req2.pc = "done"
             /\ ~req2.hit
             /\ Key2 = k
             /\ CachedData(k) = req2.value.data
             /\ CachedData(k) # Loader(req2.h, req2.kind, req2.id, db).data
                => req.peer.pc = "set"

\* An entry leaves the cache only by a delete_cache / delete_pattern aimed at its
\* key (no time passes, so no entry expires).
C20_OnlyPurgeRemoves ==
    \A k \in DOMAIN cache :
       k \notin DOMAIN cache'
       => /\ req.pc = "invalidate"
          /\ Targets(Plan[req.purged + 1], k)

\* C20: the stale-repopulation race is the only way a purged key holds
\* pre-mutation data after the mutation returned: a read that loaded before the
\* mutation wrote ran its set_cache after the purge; and the entry it left is
\* removed by nothing but a later purge aimed at its key (or its expiry).
C20_StaleRepopulation ==
    /\ []C20_OnlyTheRaceLeavesStale
    /\ [][C20_OnlyPurgeRemoves]_vars

\* C20 witness: update_user has returned, and list:users holds the listing that
\* list_users loaded before the update and stored after the purge.
C20_Witness ==
    /\ MutationReturned
    /\ req.h = "update"
    /\ req.kind = "user"
    /\ req.peer.pc = "set"
    /\ req2.pc = "done"
    /\ Cached(ListKey("user"))
    /\ CachedData(ListKey("user")) = req2.value.data
    /\ CachedData(ListKey("user")) # ListValue(db, "user").data

C22_ViewsNeverShareKey ==
    req.h = "show"
    => /\ \A i \in Ids :
             Key \notin {SongCountKey(i), <<"playlist", "songs", i>>,
                         <<"playlist", "aggregation", i>>}
       /\ (req.hit => Key \notin {SongCountKey(i) : i \in Ids})

\* Every key and pattern of the invalidation has been sent to the backend and
\* the handler answers with its success status.
C23_AllAttempted ==
    req.h \in Mutations /\ req.committed /\ req.pc \in {"return", "done"}
    => /\ req.purged = Len(Plan)
       /\ req.issued = Len(Plan)
       /\ ~req.raised
       /\ (req.pc = "done" => resp.status = SuccessStatus(req.h))

\* A step of an invalidation only removes entries.
C23_NothingRestored ==
    Invalidate => \A k \in DOMAIN cache' : k \in DOMAIN cache /\ cache'[k] = cache[k]

\* C23: within one invalidation a backend failure on one key or pattern does not
\* prevent the remaining keys and patterns from being attempted, does not bring
\* back an entry already deleted, and does not fail the handler.
C23_FailureDoesNotStopInvalidation ==
    []C23_AllAttempted /\ [][C23_NothingRestored]_vars

\* C23 witness: a mutation has answered with success although one call of its
\* invalidation failed; another call of it succeeded and removed an entry.
C23_Witness ==
    /\ req.h \in Mutations
    /\ req.committed
    /\ req.pc = "done"
    /\ req.failed >= 1
    /\ req.failed < req.issued
    /\ req.before \ DOMAIN cache # {}
    /\ resp.status = SuccessStatus(req.h)

\* C24: a usage error is surfaced to the caller: a set_cache call whose value
\* cannot be serialized raises.
C24_UsageErrorsRaise ==
    /\ req.h \in Reads
    /\ req.pc = "done"
    /\ req.loads = 1
    /\ Found(req.h, req.value)
    /\ ~JsonDumps(req.value).ok
    => req.raised

\* C25: after a miss whose load succeeded on a healthy backend, the key of the
\* read holds the loaded value (so that the next read of it is a hit).
C25_MissThenCached ==
    /\ backend = "healthy"
    /\ req.h \in Reads
    /\ req.pc = "done"
    /\ ~req.hit
    /\ req.loads = 1
    /\ Found(req.h, req.value)
    => /\ Cached(Key)
       /\ GetCache(cache, client, Key, FALSE).ret = Hit([form |-> "plain",
                                                         data |-> req.value.data])

\* The TTL of the family a key belongs to.
FamilyTtl(key) ==
    IF key[1] = "list" THEN cache_ttl_list
    ELSE IF key[1] = "aggregation" \/ (Len(key) = 3 /\ key[2] = "song_count")
    THEN cache_ttl_aggregation
    ELSE cache_ttl_single

\* C26: every entry a read handler writes carries the TTL of its key family
\* (list 300 s, aggregation 600 s, single item 1800 s), a positive integer.
\* The same holds of the TTL a handler is about to pass to set_cache.
C26_EntryCarriesFamilyTtl ==
    /\ \A k \in DOMAIN cache :
          /\ cache[k].ttl = FamilyTtl(k)
          /\ cache[k].ttl \in Nat \ {0}
    /\ req.pc = "set" => Ttl(req.h) = FamilyTtl(Key)

\* C26 witness: a listing, the artists grouping and a song count are cached, each
\* written by its read handler.
C26_Witness ==
    /\ Cached(ListKey("album"))
    /\ Cached(ArtistsKey)
    /\ Cached(SongCountKey(IdSeq[1]))
    /\ cache[ListKey("album")].ttl = 300
    /\ cache[ArtistsKey].ttl = 600
    /\ cache[SongCountKey(IdSeq[1])].ttl = 600

\* C27: when a backend error ends delete_pattern(p) after at least one batch was
\* deleted, the call returns normally, the keys of the batches deleted are
\* absent, every other key holds the whole value it had, and the matching keys
\* the scan had not reached are still cached.
C27_PartialPurgeIsValid ==
    (/\ scan.pc = "done"
     /\ scan.failed
     /\ scan.count >= 1)
    => /\ ~scan.raised
       /\ DOMAIN cache \subseteq DOMAIN scan.start
       /\ \A k \in DOMAIN cache : cache[k] = scan.start[k]
       /\ \A k \in DOMAIN scan.start \ DOMAIN cache :
             Matches(scan.pattern, k) /\ scan.passed[k] >= 1
       /\ Cardinality(DOMAIN scan.start \ DOMAIN cache) = scan.count
       /\ scan.todo \subseteq DOMAIN cache

\* C27 witness: delete_pattern("list:*") deleted a batch, then a backend command
\* failed while a list key was still to be scanned; that key is cached.
C27_Witness ==
    /\ scan.pc = "done"
    /\ scan.failed
    /\ scan.pattern = <<"list", "*">>
    /\ scan.count >= 1
    /\ \E k \in scan.todo : Matches(scan.pattern, k) /\ Cached(k)
    /\ \E k \in DOMAIN cache : ~Matches(scan.pattern, k)

\* C28: delete_pattern always terminates, also in front of a backend whose scan
\* keeps returning a non-zero cursor: a call that entered its loop returns.
C28_DeletePatternTerminates ==
    (scan.pc = "loop") ~> (scan.pc = "done")

\* C29: a single-item read that starts after an update or a delete of its record
\* has returned answers from the primary store as the mutation left it: the
\* updated record after an update, not found after a delete, never the record
\* as it was before.
C29_ReadAfterMutationIsFresh ==
    req.h = "show" /\ req.pc = "done"
    => resp = IF db[req.kind][req.id] = Absent
              THEN Response(404, {})
              ELSE Response(200, {<<req.id, db[req.kind][req.id]>>})

\* C29 witness: a song was read, updated from "A" to "B", and read again: the
\* third request answers "B".
C29_Witness ==
    /\ req.h = "show"
    /\ req.kind = "song"
    /\ req.id = IdSeq[1]
    /\ req.pc = "done"
    /\ ops = 3
    /\ db["song"][IdSeq[1]] = "B"
    /\ resp = Response(200, {<<IdSeq[1], "B">>})

\* C30: an entry that cannot be deserialized is a miss: a read of its key on a
\* healthy backend raises nothing, answers from the primary store, and leaves
\* the key holding the whole value it loaded.
C30_CorruptEntryIsMissAndReplaced ==
    (/\ backend = "healthy"
     /\ req.h \in Reads
     /\ req.pc = "done"
     /\ Key \in req.before
     /\ req.expect.resp.status = 200)
    => /\ ~req.raised
       /\ resp = req.expect.resp
       /\ Cached(Key)
       /\ JsonLoads(cache[Key].text) =
             [ok |-> TRUE, value |-> [form |-> "plain", data |-> resp.data]]

\* An entry appears or changes only by the set_cache of a read handler whose
\* load found its data, under the key of that read.
C31_OnlyLoadedReadsWrite ==
    \A k \in DOMAIN cache' :
       (k \notin DOMAIN cache \/ cache'[k] # cache[k])
       => /\ req.pc = "set"
          /\ req.h \in Reads
          /\ req.loads = 1
          /\ req.value.data # {} \/ req.h \in {"list", "get_all_artists"}
          /\ k = Key
          /\ cache'[k].text = <<"json", req.value.data>>

\* A read that answered not found created no entry under its key.
C31_NoNegativeEntry ==
    (/\ req.h \in Reads
     /\ req.pc = "done"
     /\ resp.status \in {404, 500})
    => (Cached(Key) => Key \in req.before)

\* C31: cache entries are created only by the read path after a successful load:
\* no mutation handler writes an entry, and a read whose load finds no record
\* writes none, so a negative result is never cached.
C31_EntriesOnlyFromLoadedReads ==
    []C31_NoNegativeEntry /\ [][C31_OnlyLoadedReadsWrite]_vars

\* C31 witness: get_album_song_count of an album that does not exist has answered
\* and left nothing under its key, while an earlier read had cached its listing.
C31_Witness ==
    /\ req.h = "get_album_song_count"
    /\ req.pc = "done"
    /\ req.loads = 1
    /\ db["album"][req.id] = Absent
    /\ ~Cached(Key)
    /\ Cached(ListKey("album"))

\* The keys invalidate_aggregations is aimed at.
C32_Aimed(key) ==
    \E i \in 1..Len(invalidate_aggregations) :
       Matches(invalidate_aggregations[i].arg, key)

\* Once create_album or create_playlist has run its invalidation on a healthy
\* backend, the keys cached are those cached before that are not aimed at.
C32_RemovesExactlyAimed ==
    (/\ backend = "healthy"
     /\ req.h = "create"
     /\ req.kind \in {"album", "playlist"}
     /\ req.pc \in {"return", "done"})
    => DOMAIN cache = {k \in req.before : ~C32_Aimed(k)}

\* The list keys and aggregation:artists are aimed at; no single-item key, no
\* album:song_count key and no playlist key is.
C32_AimedFamilies ==
    /\ \A kind \in Kinds : C32_Aimed(ListKey(kind))
    /\ C32_Aimed(ArtistsKey)
    /\ \A kind \in Kinds, i \in Ids : ~C32_Aimed(ItemKey(kind, i))
    /\ \A i \in Ids :
          /\ ~C32_Aimed(SongCountKey(i))
          /\ ~C32_Aimed(<<"playlist", "songs", i>>)
          /\ ~C32_Aimed(<<"playlist", "aggregation", i>>)

\* A step of that invalidation leaves the entries it keeps as they were.
C32_KeepsValues ==
    (Invalidate /\ req.h = "create" /\ req.kind \in {"album", "playlist"})
    => \A k \in DOMAIN cache' : k \in DOMAIN cache /\ cache'[k] = cache[k]

\* C32: invalidate_aggregations, run by create_album and create_playlist after
\* their insert, removes every key matching aggregation:*, artists:* or list:*
\* (the four list caches and aggregation:artists) and no single-item key, no
\* album:song_count:* key and no playlist:* key.
C32_InvalidateAggregationsFrame ==
    [](C32_RemovesExactlyAimed /\ C32_AimedFamilies) /\ [][C32_KeepsValues]_vars

\* C32 witness: create_album has returned; the album listing cached before it is
\* gone, the song count cached before it is still there.
C32_Witness ==
    /\ backend = "healthy"
    /\ req.h = "create"
    /\ req.kind = "album"
    /\ req.pc = "done"
    /\ ListKey("album") \in req.before
    /\ SongCountKey(IdSeq[1]) \in req.before
    /\ ~Cached(ListKey("album"))
    /\ Cached(SongCountKey(IdSeq[1]))

\* C33: get_album_song_count for an album that is not in the primary store (and
\* not cached) answers 404 and caches nothing.
C33_MissingAlbumIs404 ==
    (/\ req.h = "get_album_song_count"
     /\ req.pc = "done"
     /\ req.loads = 1
     /\ Key \notin req.before
     /\ db["album"][req.id] = Absent)
    => /\ resp.status = 404
       /\ ~Cached(Key)

\* An update or delete that answered 404, or an update whose body sets no field,
\* has sent no cache command and left the primary store and the cached keys as
\* they were.
C34_NoChangeNoPurge ==
    (/\ req.h \in {"update", "delete"}
     /\ req.pc = "done"
     /\ resp.status = 404 \/ (req.h = "update" /\ req.body = "empty"))
    => /\ req.issued = 0
       /\ req.purged = 0
       /\ db = req.expect.db
       /\ DOMAIN cache = req.before

\* Such a request answers in its first step, which leaves every entry as it was.
C34_CacheKept ==
    (/\ req.pc = "idle"
     /\ req'.pc = "done"
     /\ req'.h \in {"update", "delete"})
    => cache' = cache /\ db' = db

\* C34: a mutation request that does not change the primary store (update or
\* delete of an id that does not exist, update whose body sets no field) leaves
\* the cache unchanged: no cache delete and no purge, for all four kinds.
C34_UnchangedStoreUnchangedCache ==
    []C34_NoChangeNoPurge /\ [][C34_CacheKept]_vars

\* C34 witness: update_user with an empty body has answered 200 for an existing
\* user while list:users, which its invalidation deletes, is still cached.
C34_Witness ==
    /\ req.h = "update"
    /\ req.kind = "user"
    /\ req.body = "empty"
    /\ req.pc = "done"
    /\ resp.status = 200
    /\ Cached(ListKey("user"))

\* A delete_cache or delete_pattern call of an invalidation leaves every entry
\* it is not aimed at in place, with its value and expiry.
C35_OthersKept ==
    Invalidate
    => \A k \in DOMAIN cache :
          ~Targets(Plan[req.purged + 1], k)
          => k \in DOMAIN cache' /\ cache'[k] = cache[k]

\* The purge album:song_count:* is not aimed at album:<id>.
C35_SongCountGlobSparesAlbums ==
    \A i \in Ids : ~Matches(<<"album", "song_count", "*">>, ItemKey("album", i))

\* C35: delete_pattern(p) and delete_cache(k) never remove a key outside their
\* target: every key that does not match p, and every key other than k, keeps
\* its value and expiry.
C35_PurgeFrame ==
    []C35_SongCountGlobSparesAlbums /\ [][C35_OthersKept]_vars

\* C35 witness: an invalidation on a healthy backend has removed an entry and
\* another entry is still cached.
C35_Witness ==
    /\ backend = "healthy"
    /\ req.h \in Mutations
    /\ req.purged >= 1
    /\ req.before \ DOMAIN cache # {}
    /\ DOMAIN cache # {}

\* A step of a read handler leaves the primary store alone, removes no entry,
\* leaves every entry under another key than its own as it was, and on a hit
\* leaves the whole cache as it was.
C36_ReadStep ==
    req'.h \in Reads
    => /\ db' = db
       /\ DOMAIN cache \subseteq DOMAIN cache'
       /\ \A k \in DOMAIN cache' :
             k # CacheKey(req'.h, req'.kind, req'.id)
             => k \in DOMAIN cache /\ cache'[k] = cache[k]
       /\ req'.hit => cache' = cache

\* C36: a read handler changes at most its own key: it never deletes a cache
\* entry, never writes a key other than the one it looked up, performs no cache
\* write on a hit, and never modifies the primary store.
C36_ReadFrame ==
    [][C36_ReadStep]_vars

\* C36 witness: a read that missed has stored its own key and the entries cached
\* before it are all still there.
C36_Witness ==
    /\ req.h \in Reads
    /\ req.pc = "done"
    /\ ~req.hit
    /\ Key \notin req.before
    /\ Cached(Key)
    /\ req.before # {}
    /\ req.before \subseteq DOMAIN cache

\* C37: get_cache_manager creates at most one CacheManager, and every manager
\* it returns has completed connect successfully: none whose connect is still
\* running or has failed.
C37_OneConnectedManager ==
    /\ gcm.created <= 1
    /\ \A c \in Callers : gcm.pc[c] = "returned" => gcm.got[c] = "done"

====
